---- MODULE Spec2Model ----
(***************************************************************************)
(* Model of the registration server of src/src/server.rs.                  *)
(*                                                                         *)
(* One tokio task per accepted connection runs process_socket; all tasks   *)
(* share one HashMap<SocketAddr, Connection> behind a tokio Mutex.  Every  *)
(* `connections.lock().await` of the source guards one expression with no  *)
(* await in it and the guard is dropped with that expression, so each      *)
(* critical section is one action: it waits for the mutex to be free,      *)
(* works on the map and leaves the mutex free.  The three critical         *)
(* sections of handle_socket_registration are three actions, and other     *)
(* tasks run between them.                                                 *)
(***************************************************************************)
EXTENDS Integers, Sequences, FiniteSets, TLC

\* ------------------------------------------------------------------ bounds
NumAddrs == 2       \* peer addresses (identities) that ever connect
MaxAccepts == 2     \* accepted connections over the run
MaxChunks == 2      \* non-empty chunks read over the run, all connections

\* ------------------------------------------------------- program constants
CONNECTION_BUFFER_SIZE == 1024

Addrs == 1..NumAddrs
None == [none |-> TRUE]

\* ------------------------------------------------------------ wire bytes
\* Chunks are sequences of bytes.  The chunks a peer sends in the model:
\*   "REG a\n", "REG b", "REG", "reg a", " \n", 0xFF
Chunks ==
    { <<82, 69, 71, 32, 97, 10>>,
      <<82, 69, 71, 32, 98>>,
      <<82, 69, 71>>,
      <<114, 101, 103, 32, 97>>,
      <<32, 10>>,
      <<255>> }

\* String::from_utf8 on the bytes of the model's alphabet: every byte below
\* 0x80 is a one-byte code point, 0xF5..0xFF never occur in UTF-8, and the
\* alphabet has no other byte.
FromUtf8Ok(data) == \A i \in 1..Len(data) : data[i] < 128

\* (variant: only the space and the tab separate words)
IsWhitespaceBlankOnly(b) == b \in {9, 32}

\* char::is_whitespace restricted to ASCII
IsWhitespace(b) == b \in {9, 10, 11, 12, 13, 32}

RECURSIVE Split(_, _, _)
Split(s, i, cur) ==
    IF i > Len(s)
    THEN IF cur = <<>> THEN <<>> ELSE <<cur>>
    ELSE IF IsWhitespace(s[i])
         THEN IF cur = <<>>
              THEN Split(s, i + 1, <<>>)
              ELSE <<cur>> \o Split(s, i + 1, <<>>)
         ELSE Split(s, i + 1, Append(cur, s[i]))

\* str::split_whitespace: the maximal runs of non-whitespace, in order
SplitWhitespace(s) == Split(s, 1, <<>>)

\* (variant: the command name is matched in lower case)
REG_lowercase == <<114, 101, 103>>

\* the command name "REG" as bytes
REG == <<82, 69, 71>>

\* ------------------------------------------------------------- responses
\* send_response(.., add_new_line = true): the payload followed by "\n"
FormatResponse(response, add_new_line) ==
    IF add_new_line THEN <<response, "\n">> ELSE <<response>>

\* send_error_response: format!("ERR {}", error), newline added
FormatError(error) == FormatResponse(<<"ERR", error>>, TRUE)

FormatOk == FormatResponse(<<"OK">>, TRUE)

VARIABLES
    pc,               \* pc[a]: where the task of the connection with address a is
    connections,      \* the shared HashMap: connections[a] is the record under key a, or None
    connectionsLock,  \* the address whose task holds the HashMap's mutex across an await, or 0
    socketLock,       \* socketLock[a]: the socket mutex of a's connection is held
    buffer,           \* buffer[a]: the chunk being handled (data_buffer)
    nickname,         \* nickname[a]: the argument of handle_socket_registration
    response,         \* response[a]: the response about to be written
    conn,             \* conn[a]: the result of get_connection_by_addr at end-of-stream
    inp,              \* inp[a]: the chunks read on a's current connection, in order
    out,              \* out[a]: the responses written to a's current connection, in order
    stdout,           \* the lines printed, in order (tagged with the session printing them)
    exit,             \* exit[a]: how the session of a's current connection ended
    gen,              \* gen[a]: number of connections accepted from address a
    accepts,          \* connections accepted so far
    chunks            \* non-empty chunks read so far

vars == <<pc, connections, connectionsLock, socketLock, buffer, nickname, response,
          conn, inp, out, stdout, exit, gen, accepts, chunks>>

Nicknames == { SplitWhitespace(d)[2] : d \in { x \in Chunks : FromUtf8Ok(x) /\ Len(SplitWhitespace(x)) >= 2 } }

\* ---------------------------------------------------------------- Init
\* start_server: the listener is bound, the map is empty, nothing accepted.
Init ==
    /\ pc = [a \in Addrs |-> "none"]
    /\ connections = [a \in Addrs |-> None]
    /\ connectionsLock = 0
    /\ socketLock = [a \in Addrs |-> FALSE]
    /\ buffer = [a \in Addrs |-> <<>>]
    /\ nickname = [a \in Addrs |-> <<>>]
    /\ response = [a \in Addrs |-> <<>>]
    /\ conn = [a \in Addrs |-> None]
    /\ inp = [a \in Addrs |-> <<>>]
    /\ out = [a \in Addrs |-> <<>>]
    /\ stdout = <<>>
    /\ exit = [a \in Addrs |-> "none"]
    /\ gen = [a \in Addrs |-> 0]
    /\ accepts = 0
    /\ chunks = 0

\* ------------------------------------------------------- HashMap operations
contains_key(map, addr) == map[addr] # None

values(map) == { map[a] : a \in { x \in Addrs : map[x] # None } }

\* connections.values().any(|c| c.nickname == nickname)
nickname_taken(map, nick) == \E c \in values(map) : c.nickname = nick

\* (variant: the insert drops every other entry of the map)
insert_alone(map, addr, rec) == [x \in Addrs |-> IF x = addr THEN rec ELSE None]

\* HashMap::insert: the record under addr is set (replacing one already there)
insert(map, addr, rec) == [map EXCEPT ![addr] = rec]

\* (variant: the lookup misses every key)
get_connection_miss(addr, map) == None

\* get_connection_by_addr, under the lock: the record under addr, cloned
get_connection_by_addr(addr, map) == IF contains_key(map, addr) THEN map[addr] ELSE None

\* ------------------------------------------------------------ task exits
\* A panic in a spawned task unwinds that task only: its guards are dropped,
\* the task ends, and tokio::spawn's JoinHandle (dropped in start_server)
\* swallows the panic.  `break` ends the task the same way.
\* (variant: the end of one task takes every other task down with it)
EndSessionAbortsAll(a, why) ==
    /\ pc' = [x \in Addrs |-> IF pc[x] = "none" THEN "none" ELSE "closed"]
    /\ exit' = [x \in Addrs |-> IF pc[x] \in {"none", "closed"} /\ x # a THEN exit[x] ELSE why]
    /\ socketLock' = [x \in Addrs |-> FALSE]

EndSession(a, why) ==
    /\ pc' = [pc EXCEPT ![a] = "closed"]
    /\ exit' = [exit EXCEPT ![a] = why]
    /\ socketLock' = [socketLock EXCEPT ![a] = FALSE]

\* ------------------------------------------------------------ start_server
\* listener.accept() + tokio::spawn(process_socket).  A peer address is free
\* for a new connection once the session of its previous connection ended.
Accept(a) ==
    /\ pc[a] \in {"none", "closed"}
    /\ accepts < MaxAccepts
    /\ accepts' = accepts + 1
    /\ gen' = [gen EXCEPT ![a] = @ + 1]
    /\ pc' = [pc EXCEPT ![a] = "loop"]
    /\ exit' = [exit EXCEPT ![a] = "none"]
    /\ socketLock' = [socketLock EXCEPT ![a] = FALSE]
    /\ buffer' = [buffer EXCEPT ![a] = <<>>]
    /\ nickname' = [nickname EXCEPT ![a] = <<>>]
    /\ response' = [response EXCEPT ![a] = <<>>]
    /\ conn' = [conn EXCEPT ![a] = None]
    /\ inp' = [inp EXCEPT ![a] = <<>>]
    /\ out' = [out EXCEPT ![a] = <<>>]
    /\ UNCHANGED <<connections, connectionsLock, stdout, chunks>>

\* ---------------------------------------------------------- process_socket
\* socket.lock().await, then locked_socket.read(&mut buffer) is pending
StartRead(a) ==
    /\ pc[a] = "loop"
    /\ ~socketLock[a]
    /\ socketLock' = [socketLock EXCEPT ![a] = TRUE]
    /\ pc' = [pc EXCEPT ![a] = "reading"]
    /\ UNCHANGED <<connections, connectionsLock, buffer, nickname, response, conn,
                   inp, out, stdout, exit, gen, accepts, chunks>>

\* the read returns Ok(0); the socket guard is dropped at the end of the block
ReadEof(a) ==
    /\ pc[a] = "reading"
    /\ socketLock' = [socketLock EXCEPT ![a] = FALSE]
    /\ pc' = [pc EXCEPT ![a] = "eof_get"]
    /\ UNCHANGED <<connections, connectionsLock, buffer, nickname, response, conn,
                   inp, out, stdout, exit, gen, accepts, chunks>>

\* (variant: the handling of the chunk is not awaited; the loop reads on)
ReadChunkNotAwaited(a, data) ==
    /\ pc[a] = "reading"
    /\ chunks < MaxChunks
    /\ Len(data) >= 1
    /\ Len(data) <= CONNECTION_BUFFER_SIZE
    /\ chunks' = chunks + 1
    /\ socketLock' = [socketLock EXCEPT ![a] = FALSE]
    /\ buffer' = [buffer EXCEPT ![a] = data]
    /\ inp' = [inp EXCEPT ![a] = Append(@, data)]
    /\ pc' = [pc EXCEPT ![a] = "loop"]
    /\ UNCHANGED <<connections, connectionsLock, nickname, response, conn,
                   out, stdout, exit, gen, accepts>>

\* the read returns Ok(n), n > 0: data_buffer = buffer[..n]
ReadChunk(a, data) ==
    /\ pc[a] = "reading"
    /\ chunks < MaxChunks
    /\ Len(data) >= 1
    /\ Len(data) <= CONNECTION_BUFFER_SIZE
    /\ chunks' = chunks + 1
    /\ socketLock' = [socketLock EXCEPT ![a] = FALSE]
    /\ buffer' = [buffer EXCEPT ![a] = data]
    /\ inp' = [inp EXCEPT ![a] = Append(@, data)]
    /\ pc' = [pc EXCEPT ![a] = "handle"]
    /\ UNCHANGED <<connections, connectionsLock, nickname, response, conn,
                   out, stdout, exit, gen, accepts>>

\* the read returns Err(_): break
ReadErr(a) ==
    /\ pc[a] = "reading"
    /\ EndSession(a, "read_err")
    /\ UNCHANGED <<connections, connectionsLock, buffer, nickname, response, conn,
                   inp, out, stdout, gen, accepts, chunks>>

\* Ok(0): conn = get_connection_by_addr(addr, connections).await
\* (lock, get, clone, unlock)
GetConnection(a) ==
    /\ pc[a] = "eof_get"
    /\ connectionsLock = 0
    /\ conn' = [conn EXCEPT ![a] = get_connection_by_addr(a, connections)]
    /\ connectionsLock' = 0
    /\ pc' = [pc EXCEPT ![a] = "eof_match"]
    /\ UNCHANGED <<connections, socketLock, buffer, nickname, response,
                   inp, out, stdout, exit, gen, accepts, chunks>>

\* the line println! writes for a lifecycle event (the colours left out);
\* addr and gen tag the session that printed it
Line(kind, nick, a) == [kind |-> kind, nickname |-> nick, addr |-> a, gen |-> gen[a]]

\* match conn { None => {}, Some(conn) => println!(.. conn.nickname .. "Left") }; break
MatchConn(a) ==
    /\ pc[a] = "eof_match"
    /\ stdout' = IF conn[a] = None THEN stdout
                 ELSE Append(stdout, Line("Left", conn[a].nickname, a))
    /\ EndSession(a, "eof")
    /\ UNCHANGED <<connections, connectionsLock, buffer, nickname, response, conn,
                   inp, out, gen, accepts, chunks>>

\* --------------------------------------------------- handle_incoming_buffer
\* String::from_utf8(..).unwrap(); split_whitespace; the dispatch on the
\* first word, up to the first await of the branch taken.
HandleIncomingBuffer(a) ==
    /\ pc[a] = "handle"
    /\ IF ~FromUtf8Ok(buffer[a])
       THEN /\ EndSession(a, "panic_utf8")
            /\ UNCHANGED <<nickname, response>>
       ELSE LET data_splitted == SplitWhitespace(buffer[a]) IN
            IF Len(data_splitted) < 1
            THEN /\ response' = [response EXCEPT ![a] = FormatError("NIL_CMD")]
                 /\ pc' = [pc EXCEPT ![a] = "send"]
                 /\ UNCHANGED <<nickname, exit, socketLock>>
            ELSE IF data_splitted[1] = REG
            THEN IF Len(data_splitted) < 2
                 THEN /\ EndSession(a, "panic_nil_nick")
                      /\ UNCHANGED <<nickname, response>>
                 ELSE /\ nickname' = [nickname EXCEPT ![a] = data_splitted[2]]
                      /\ pc' = [pc EXCEPT ![a] = "reg_contains"]
                      /\ UNCHANGED <<response, exit, socketLock>>
            ELSE /\ response' = [response EXCEPT ![a] = FormatError("UNK_CMD")]
                 /\ pc' = [pc EXCEPT ![a] = "send"]
                 /\ UNCHANGED <<nickname, exit, socketLock>>
    /\ UNCHANGED <<connections, connectionsLock, buffer, conn, inp, out, stdout,
                   gen, accepts, chunks>>

\* ----------------------------------------------- handle_socket_registration
\* (variant: the already-registered check is skipped)
RegContainsKeySkipped(a) ==
    /\ pc[a] = "reg_contains"
    /\ connectionsLock = 0
    /\ connectionsLock' = 0
    /\ pc' = [pc EXCEPT ![a] = "reg_any"]
    /\ UNCHANGED <<connections, socketLock, buffer, nickname, response, conn, inp, out,
                   stdout, exit, gen, accepts, chunks>>

\* (variant: the nickname is checked before the identity)
RegContainsKeyNicknameFirst(a) ==
    /\ pc[a] = "reg_contains"
    /\ connectionsLock = 0
    /\ connectionsLock' = 0
    /\ IF nickname_taken(connections, nickname[a])
       THEN /\ response' = [response EXCEPT ![a] = FormatError("TKN")]
            /\ pc' = [pc EXCEPT ![a] = "send"]
       ELSE IF contains_key(connections, a)
       THEN /\ response' = [response EXCEPT ![a] = FormatError("ALR_REG")]
            /\ pc' = [pc EXCEPT ![a] = "send"]
       ELSE /\ pc' = [pc EXCEPT ![a] = "reg_any"]
            /\ UNCHANGED response
    /\ UNCHANGED <<connections, socketLock, buffer, nickname, conn, inp, out, stdout,
                   exit, gen, accepts, chunks>>

\* (variant: the guard of the identity check lives as long as the branch,
\* so ERR ALR_REG is written with the registry locked)
RegContainsKeyGuardKept(a) ==
    /\ pc[a] = "reg_contains"
    /\ connectionsLock = 0
    /\ IF contains_key(connections, a)
       THEN /\ response' = [response EXCEPT ![a] = FormatError("ALR_REG")]
            /\ pc' = [pc EXCEPT ![a] = "send"]
            /\ connectionsLock' = a
       ELSE /\ pc' = [pc EXCEPT ![a] = "reg_any"]
            /\ connectionsLock' = 0
            /\ UNCHANGED response
    /\ UNCHANGED <<connections, socketLock, buffer, nickname, conn, inp, out, stdout,
                   exit, gen, accepts, chunks>>

\* if connections.lock().await.contains_key(&addr) { ALR_REG; return }
\* (the guard is a temporary of the condition: dropped before the branch)
RegContainsKey(a) ==
    /\ pc[a] = "reg_contains"
    /\ connectionsLock = 0
    /\ connectionsLock' = 0
    /\ IF contains_key(connections, a)
       THEN /\ response' = [response EXCEPT ![a] = FormatError("ALR_REG")]
            /\ pc' = [pc EXCEPT ![a] = "send"]
       ELSE /\ pc' = [pc EXCEPT ![a] = "reg_any"]
            /\ UNCHANGED response
    /\ UNCHANGED <<connections, socketLock, buffer, nickname, conn, inp, out, stdout,
                   exit, gen, accepts, chunks>>

\* if connections.lock().await.values().any(|c| c.nickname == nickname) { TKN; return }
RegNicknameTaken(a) ==
    /\ pc[a] = "reg_any"
    /\ connectionsLock = 0
    /\ connectionsLock' = 0
    /\ IF nickname_taken(connections, nickname[a])
       THEN /\ response' = [response EXCEPT ![a] = FormatError("TKN")]
            /\ pc' = [pc EXCEPT ![a] = "send"]
       ELSE /\ pc' = [pc EXCEPT ![a] = "reg_insert"]
            /\ UNCHANGED response
    /\ UNCHANGED <<connections, socketLock, buffer, nickname, conn, inp, out, stdout,
                   exit, gen, accepts, chunks>>

\* connections.lock().await.insert(addr, Connection { socket, addr, nickname })
RegInsert(a) ==
    /\ pc[a] = "reg_insert"
    /\ connectionsLock = 0
    /\ connectionsLock' = 0
    /\ connections' = insert(connections, a,
                             [socket |-> gen[a], addr |-> a, nickname |-> nickname[a]])
    /\ response' = [response EXCEPT ![a] = FormatOk]
    /\ pc' = [pc EXCEPT ![a] = "send"]
    /\ UNCHANGED <<socketLock, buffer, nickname, conn, inp, out, stdout,
                   exit, gen, accepts, chunks>>

\* ------------------------------------------------------------ send_response
\* (variant: the "Joined" line is printed after every response of the
\* registration handler, not only after OK)
SendResponseThenJoined(a) ==
    /\ pc[a] = "send"
    /\ ~socketLock[a]
    /\ out' = [out EXCEPT ![a] = Append(@, response[a])]
    /\ pc' = [pc EXCEPT ![a] = IF response[a] \in {FormatOk, FormatError("ALR_REG"), FormatError("TKN")}
                               THEN "joined" ELSE "loop"]
    /\ UNCHANGED <<connections, connectionsLock, socketLock, buffer, nickname, response,
                   conn, inp, stdout, exit, gen, accepts, chunks>>

\* socket.lock().await; write_all(..).await.unwrap(); flush().await.unwrap().
\* After OK the registration handler goes on to print "Joined"; after an
\* error response every path returns to the loop of process_socket.
SendResponse(a) ==
    /\ pc[a] = "send"
    /\ ~socketLock[a]
    /\ out' = [out EXCEPT ![a] = Append(@, response[a])]
    /\ pc' = [pc EXCEPT ![a] = IF response[a] = FormatOk THEN "joined" ELSE "loop"]
    /\ UNCHANGED <<connections, connectionsLock, socketLock, buffer, nickname, response,
                   conn, inp, stdout, exit, gen, accepts, chunks>>

\* write_all or flush returns Err (the peer is gone): unwrap panics
SendResponseFails(a) ==
    /\ pc[a] = "send"
    /\ ~socketLock[a]
    /\ EndSession(a, "panic_write")
    /\ UNCHANGED <<connections, connectionsLock, buffer, nickname, response,
                   conn, inp, out, stdout, gen, accepts, chunks>>

\* println!("> {nickname} Joined") at the end of handle_socket_registration
PrintJoined(a) ==
    /\ pc[a] = "joined"
    /\ stdout' = Append(stdout, Line("Joined", nickname[a], a))
    /\ pc' = [pc EXCEPT ![a] = "loop"]
    /\ UNCHANGED <<connections, connectionsLock, socketLock, buffer, nickname, response,
                   conn, inp, out, exit, gen, accepts, chunks>>

\* ------------------------------------------------------------------- Next
Next ==
    \/ \E a \in Addrs : Accept(a)
    \/ \E a \in Addrs : StartRead(a)
    \/ \E a \in Addrs : ReadEof(a)
    \/ \E a \in Addrs : \E data \in Chunks : ReadChunk(a, data)
    \/ \E a \in Addrs : ReadErr(a)
    \/ \E a \in Addrs : GetConnection(a)
    \/ \E a \in Addrs : MatchConn(a)
    \/ \E a \in Addrs : HandleIncomingBuffer(a)
    \/ \E a \in Addrs : RegContainsKey(a)
    \/ \E a \in Addrs : RegNicknameTaken(a)
    \/ \E a \in Addrs : RegInsert(a)
    \/ \E a \in Addrs : SendResponse(a)
    \/ \E a \in Addrs : SendResponseFails(a)
    \/ \E a \in Addrs : PrintJoined(a)

Spec == Init /\ [][Next]_vars

\* The steps of a's task that wait for no peer: tokio polls a ready task
\* again, and its Mutex hands the lock to waiters in turn.  The reads wait
\* for the peer and accept waits for a new peer: no fairness for them.
Progress(a) ==
    \/ StartRead(a)
    \/ GetConnection(a)
    \/ MatchConn(a)
    \/ HandleIncomingBuffer(a)
    \/ RegContainsKey(a)
    \/ RegNicknameTaken(a)
    \/ RegInsert(a)
    \/ SendResponse(a)
    \/ SendResponseFails(a)
    \/ PrintJoined(a)

FairSpec == Init /\ [][Next]_vars /\ \A a \in Addrs : WF_vars(Progress(a))

TypeOK ==
    /\ pc \in [Addrs -> {"none", "loop", "reading", "eof_get", "eof_match", "handle",
                         "reg_contains", "reg_any", "reg_insert", "send", "joined",
                         "closed"}]
    /\ connectionsLock \in Addrs \cup {0}
    /\ socketLock \in [Addrs -> BOOLEAN]
    /\ \A a \in Addrs : inp[a] \in Seq(Chunks) /\ Len(out[a]) <= Len(inp[a])
    /\ accepts \in 0..MaxAccepts
    /\ chunks \in 0..MaxChunks

\* ===================================================================
\* Vocabulary of the properties
\* ===================================================================
\* the words of each chunk a peer can send, as split_whitespace gives them
WordsOf == [d \in Chunks |-> SplitWhitespace(d)]

\* a chunk that decodes and whose first word is REG, followed by a nickname
IsRegWithNick(d) ==
    /\ FromUtf8Ok(d)
    /\ Len(WordsOf[d]) >= 2
    /\ WordsOf[d][1] = REG

\* a chunk that decodes and whose only word is REG
IsBareReg(d) == FromUtf8Ok(d) /\ WordsOf[d] = <<REG>>

NickOf(d) == WordsOf[d][2]

\* the i-th chunk of a's connection has been answered, resp. answered with r
\* (the session handles one chunk at a time and a panic ends it, so the i-th
\* response written is the answer to the i-th chunk read)
Answered(a, i) == i <= Len(out[a])
AnsweredWith(a, i, r) == Answered(a, i) /\ out[a][i] = r

\* the handling of the i-th chunk of a's connection is over
Handled(a, i) ==
    i < Len(inp[a]) \/ (i = Len(inp[a]) /\ pc[a] \in {"loop", "reading", "eof_get", "eof_match", "closed"})

\* indices of the OK answers on a's current connection
OkIndices(a) == { i \in 1..Len(out[a]) : out[a][i] = FormatOk }
Registered(a) == OkIndices(a) # {}

\* the "Left" lines printed by the current session of address a
LeftLines(a) ==
    { k \in 1..Len(stdout) :
        stdout[k].kind = "Left" /\ stdout[k].addr = a /\ stdout[k].gen = gen[a] }

Live(a) == pc[a] \notin {"none", "closed"}

\* ===================================================================
\* C1: of the REG commands that distinct connections (none registered
\* before) issue with the same nickname, at most one is answered OK and every
\* other one is answered ERR TKN.
\* ===================================================================
C1_UniquenessOfRacingRegistrations ==
    \A a \in Addrs : \A b \in Addrs \ {a} :
        \A i \in 1..Len(out[a]) : \A j \in 1..Len(out[b]) :
            ( /\ IsRegWithNick(inp[a][i]) /\ IsRegWithNick(inp[b][j])
              /\ NickOf(inp[a][i]) = NickOf(inp[b][j])
              /\ \A k \in 1..(i - 1) : out[a][k] # FormatOk
              /\ \A k \in 1..(j - 1) : out[b][k] # FormatOk )
            => /\ ~(out[a][i] = FormatOk /\ out[b][j] = FormatOk)
               /\ out[a][i] \in {FormatOk, FormatError("TKN")}
               /\ out[b][j] \in {FormatOk, FormatError("TKN")}

\* ===================================================================
\* C2: invariant I2: no two records of the registry carry the same nickname.
\* ===================================================================
C2_I2_NicknamesUnique ==
    \A a \in Addrs : \A b \in Addrs \ {a} :
        (contains_key(connections, a) /\ contains_key(connections, b))
        => connections[a].nickname # connections[b].nickname

\* ===================================================================
\* C3: once a connection's REG has been answered OK, every later REG (with a
\* nickname) on that connection is rejected with ERR ALR_REG, never taken past
\* the already-registered check, and the record under its identity keeps the
\* nickname of the REG that was answered OK.
\* ===================================================================
C3_SingleRegistration ==
    \A a \in Addrs : \A i \in OkIndices(a) :
        /\ contains_key(connections, a)
        /\ connections[a].nickname = NickOf(inp[a][i])
        /\ \A j \in (i + 1)..Len(inp[a]) :
              IsRegWithNick(inp[a][j]) =>
                 /\ Answered(a, j) => out[a][j] = FormatError("ALR_REG")
                 /\ ~Answered(a, j) =>
                       /\ pc[a] \notin {"reg_any", "reg_insert", "joined"}
                       /\ pc[a] = "send" => response[a] = FormatError("ALR_REG")

\* a registered connection asked for another, free nickname and got ALR_REG
C3_Witness ==
    \E a \in Addrs :
        /\ Len(out[a]) = 2
        /\ out[a][1] = FormatOk
        /\ out[a][2] = FormatError("ALR_REG")
        /\ IsRegWithNick(inp[a][2])
        /\ NickOf(inp[a][2]) # NickOf(inp[a][1])
        /\ ~nickname_taken(connections, NickOf(inp[a][2]))

\* ===================================================================
\* C4: after a registered connection's stream reported end-of-stream and its
\* session loop has exited, a lookup of its identity returns nothing.
\* ===================================================================
C4_CleanupOnDisconnect ==
    \A a \in Addrs :
        (pc[a] = "closed" /\ exit[a] = "eof" /\ Registered(a))
        => get_connection_by_addr(a, connections) = None

\* ===================================================================
\* C5: a read error is cleaned up like end-of-stream: the record of a
\* registered connection is removed and a "Left" line with its nickname is
\* printed before the session loop exits.
\* ===================================================================
C5_ReadErrorCleanup ==
    \A a \in Addrs :
        (pc[a] = "closed" /\ exit[a] = "read_err" /\ Registered(a))
        => /\ ~contains_key(connections, a)
           /\ \E k \in LeftLines(a) :
                 \A i \in OkIndices(a) : stdout[k].nickname = NickOf(inp[a][i])

\* ===================================================================
\* C6: when a registered connection's stream reports end-of-stream, its
\* session prints "Left" exactly once, with the nickname the connection
\* registered under (and never more than once, nor with another nickname).
\* ===================================================================
C6_LeftOnceOnEof ==
    \A a \in Addrs :
        Registered(a) =>
            /\ Cardinality(LeftLines(a)) <= 1
            /\ (pc[a] = "closed" /\ exit[a] = "eof") => Cardinality(LeftLines(a)) = 1
            /\ \A k \in LeftLines(a) : \A i \in OkIndices(a) :
                  stdout[k].nickname = NickOf(inp[a][i])

\* a registered connection reached end-of-stream and its session has exited
C6_Witness ==
    \E a \in Addrs :
        /\ Registered(a)
        /\ pc[a] = "closed"
        /\ exit[a] = "eof"
        /\ LeftLines(a) # {}

\* ===================================================================
\* C7: a chunk whose only word is REG is answered ERR NIL_NICK and does not
\* end the session.
\* ===================================================================
C7_MissingArgument ==
    \A a \in Addrs : \A i \in 1..Len(inp[a]) :
        (IsBareReg(inp[a][i]) /\ Handled(a, i))
        => /\ AnsweredWith(a, i, FormatError("NIL_NICK"))
           /\ exit[a] # "panic_nil_nick"

\* ===================================================================
\* C8: every non-empty chunk is answered with exactly one response line, OK
\* or ERR <code>.  (Stated for the chunks that decode, on connections whose
\* writes succeed.)
\* ===================================================================
ResponseLines ==
    {FormatOk} \cup { FormatError(e) : e \in {"NIL_CMD", "UNK_CMD", "NIL_NICK", "ALR_REG", "TKN"} }

C8_OneResponsePerChunk ==
    \A a \in Addrs :
        /\ Len(out[a]) <= Len(inp[a])
        /\ \A i \in 1..Len(out[a]) : out[a][i] \in ResponseLines
        /\ \A i \in 1..Len(inp[a]) :
              (FromUtf8Ok(inp[a][i]) /\ Handled(a, i) /\ exit[a] # "panic_write")
              => Answered(a, i)

\* ===================================================================
\* C9: a step in which one connection's session handles an error of its own
\* (malformed command, missing argument, decode failure, read error,
\* end-of-stream, failed write) leaves every other session where it was,
\* leaves every other record as it was, makes no nickname taken that was
\* free, and leaves the registry lock free of the failing task.
\* ===================================================================
ErrorStep(a) ==
    /\ pc'[a] # pc[a]
    /\ \/ pc'[a] = "closed"
       \/ pc[a] = "reading" /\ pc'[a] = "eof_get"
       \/ pc[a] \in {"eof_get", "eof_match"}
       \/ pc[a] = "handle" /\ pc'[a] = "send"
       \/ pc[a] = "send" /\ response[a] \in {FormatError("NIL_CMD"), FormatError("UNK_CMD")}

OthersUntouched(a) ==
    /\ \A b \in Addrs \ {a} :
          /\ pc'[b] = pc[b]
          /\ exit'[b] = exit[b]
          /\ connections'[b] = connections[b]
          /\ out'[b] = out[b]
          /\ inp'[b] = inp[b]
          /\ response'[b] = response[b]
          /\ nickname'[b] = nickname[b]
          /\ socketLock'[b] = socketLock[b]
    /\ \A n \in Nicknames : nickname_taken(connections', n) => nickname_taken(connections, n)
    /\ (pc'[a] = "closed" => connectionsLock' # a)
    /\ (connectionsLock # a => connectionsLock' = connectionsLock)

C9_LocalErrorsStayLocal ==
    [][ \A a \in Addrs : ErrorStep(a) => OthersUntouched(a) ]_vars

\* one session has ended in an error while another connection is live,
\* registered and has been answered
C9_Witness ==
    \E a \in Addrs : \E b \in Addrs \ {a} :
        /\ pc[a] = "closed"
        /\ exit[a] \in {"panic_utf8", "panic_nil_nick", "read_err", "eof"}
        /\ Live(b)
        /\ Registered(b)
        /\ contains_key(connections, b)

\* ===================================================================
\* C10: a chunk that fails text decoding never ends the session while the
\* record this connection inserted under its identity stays in the registry.
\* ===================================================================
C10_DecodeFailureKeepsRegistryConsistent ==
    \A a \in Addrs :
        (pc[a] = "closed" /\ exit[a] = "panic_utf8")
        => ~(contains_key(connections, a) /\ connections[a].socket = gen[a])

\* ===================================================================
\* C11: a connection whose session ends by end-of-stream or read error
\* without any of its REG commands having succeeded prints no "Left" line.
\* ===================================================================
C11_NoLeftForUnregistered ==
    \A a \in Addrs :
        (pc[a] = "closed" /\ exit[a] \in {"eof", "read_err"} /\ ~Registered(a))
        => LeftLines(a) = {}

\* ===================================================================
\* Chunks answered with a protocol error and nothing else
\* ===================================================================
\* the i-th chunk of a's connection is answered err, or is on its way to be
\* (the only other end is a failed write of that very response)
AnswerIs(a, i, err) ==
    /\ Answered(a, i) => out[a][i] = FormatError(err)
    /\ ~Answered(a, i) =>
          /\ pc[a] \in {"handle", "send", "closed"}
          /\ pc[a] = "send" => response[a] = FormatError(err)
          /\ pc[a] = "closed" => exit[a] = "panic_write"

\* a step of a's task handling its current chunk leaves the registry alone,
\* writes nothing but err, and goes back to reading unless the write fails
OnlyAnswers(a, err) ==
    /\ connections' = connections
    /\ out'[a] = out[a] \/ out'[a] = Append(out[a], FormatError(err))
    /\ \/ pc[a] = "handle" /\ pc'[a] = "send"
       \/ pc[a] = "send" /\ pc'[a] = "loop" /\ exit'[a] = "none" /\ out'[a] # out[a]
       \/ pc[a] = "send" /\ pc'[a] = "closed" /\ exit'[a] = "panic_write"

\* ===================================================================
\* C12: a chunk whose first word is not exactly REG is answered ERR UNK_CMD;
\* handling it leaves the registry unchanged and the connection open, in the
\* state it was in.
\* ===================================================================
IsUnknownCommand(d) ==
    /\ FromUtf8Ok(d)
    /\ Len(WordsOf[d]) >= 1
    /\ WordsOf[d][1] # <<82, 69, 71>>

C12_UnknownCommand ==
    /\ [](\A a \in Addrs : \A i \in 1..Len(inp[a]) :
             IsUnknownCommand(inp[a][i]) => AnswerIs(a, i, "UNK_CMD"))
    /\ [][ \A a \in Addrs :
             (pc[a] \in {"handle", "send"} /\ pc'[a] # pc[a] /\ IsUnknownCommand(buffer[a]))
             => OnlyAnswers(a, "UNK_CMD") ]_vars

\* "reg a" was answered ERR UNK_CMD and the connection reads on, unregistered
C12_Witness ==
    \E a \in Addrs :
        /\ Len(out[a]) = 1
        /\ IsUnknownCommand(inp[a][1])
        /\ WordsOf[inp[a][1]][1] = <<114, 101, 103>>
        /\ out[a][1] = FormatError("UNK_CMD")
        /\ pc[a] = "reading"
        /\ ~contains_key(connections, a)

\* ===================================================================
\* C13: a non-empty chunk of whitespace only is answered ERR NIL_CMD;
\* handling it leaves the registry unchanged and the connection open.
\* ===================================================================
IsWhitespaceOnly(d) ==
    /\ Len(d) >= 1
    /\ \A i \in 1..Len(d) : d[i] \in {9, 10, 11, 12, 13, 32}

C13_EmptyInput ==
    /\ [](\A a \in Addrs : \A i \in 1..Len(inp[a]) :
             IsWhitespaceOnly(inp[a][i]) => AnswerIs(a, i, "NIL_CMD"))
    /\ [][ \A a \in Addrs :
             (pc[a] \in {"handle", "send"} /\ pc'[a] # pc[a] /\ IsWhitespaceOnly(buffer[a]))
             => OnlyAnswers(a, "NIL_CMD") ]_vars

\* " \n" was answered ERR NIL_CMD and the connection reads on
C13_Witness ==
    \E a \in Addrs :
        /\ Len(out[a]) >= 1
        /\ IsWhitespaceOnly(inp[a][Len(out[a])])
        /\ out[a][Len(out[a])] = FormatError("NIL_CMD")
        /\ pc[a] = "reading"

\* ===================================================================
\* C14: the identity is checked before the nickname: a REG from a connection
\* with a record under its identity is answered ERR ALR_REG, never ERR TKN,
\* whoever holds the requested nickname; the nickname check only runs for,
\* and ERR TKN is only sent to, a connection without a record that was not
\* answered OK before.
\* ===================================================================
C14_IdentityBeforeNickname ==
    \A a \in Addrs :
        /\ pc[a] \in {"reg_any", "reg_insert"} => ~contains_key(connections, a)
        /\ (pc[a] = "send" /\ response[a] = FormatError("TKN")) =>
              /\ ~contains_key(connections, a)
              /\ ~Registered(a)
        /\ (pc[a] = "send" /\ IsRegWithNick(buffer[a]) /\ Registered(a)) =>
              response[a] = FormatError("ALR_REG")
        /\ \A i \in 1..Len(out[a]) :
              /\ out[a][i] = FormatError("TKN") => \A k \in 1..(i - 1) : out[a][k] # FormatOk
              /\ (IsRegWithNick(inp[a][i]) /\ \E k \in 1..(i - 1) : out[a][k] = FormatOk)
                 => out[a][i] = FormatError("ALR_REG")

\* a registered connection asked for the nickname its own record holds and
\* was answered ERR ALR_REG
C14_Witness ==
    \E a \in Addrs :
        /\ Len(out[a]) = 2
        /\ out[a][1] = FormatOk
        /\ IsRegWithNick(inp[a][2])
        /\ NickOf(inp[a][2]) = connections[a].nickname
        /\ nickname_taken(connections, NickOf(inp[a][2]))
        /\ out[a][2] = FormatError("ALR_REG")

\* ===================================================================
\* C15: invariant I3: a connection that was sent OK has a record under its
\* identity with exactly the requested nickname, and a live connection none
\* of whose REG commands has succeeded has no record under its identity.
\* ===================================================================
\* a REG of a's current connection has passed both checks and inserted
RegSucceeded(a) == Registered(a) \/ (pc[a] = "send" /\ response[a] = FormatOk)

C15_I3_RecordIffRegistered ==
    \A a \in Addrs :
        /\ \A i \in OkIndices(a) :
              /\ contains_key(connections, a)
              /\ connections[a].nickname = NickOf(inp[a][i])
        /\ (Live(a) /\ ~RegSucceeded(a)) => ~contains_key(connections, a)

\* ===================================================================
\* C16: the registry changes only by the insert of a record under the acting
\* connection's own identity at the end of its successful REG, or by the
\* removal of a record at the closure (end-of-stream, read error) of the
\* connection that owns it; every other step leaves the registry unchanged.
\* ===================================================================
InsertsOwnRecord(a) ==
    /\ pc[a] = "reg_insert"
    /\ pc'[a] = "send"
    /\ response'[a] = FormatOk
    /\ ~contains_key(connections, a)
    /\ contains_key(connections', a)
    /\ connections'[a].addr = a
    /\ connections'[a].nickname = NickOf(buffer[a])
    /\ \A b \in Addrs \ {a} : connections'[b] = connections[b]

RemovesOwnRecord(a) ==
    /\ pc[a] # "closed"
    /\ pc'[a] = "closed"
    /\ exit'[a] \in {"eof", "read_err"}
    /\ contains_key(connections, a)
    /\ connections' = [connections EXCEPT ![a] = None]

C16_RegistryChangesOnlyByInsertOrClosure ==
    [][ \/ connections' = connections
        \/ \E a \in Addrs : InsertsOwnRecord(a)
        \/ \E a \in Addrs : RemovesOwnRecord(a) ]_vars

\* a record has just been inserted next to the record of another connection
C16_Witness ==
    \E a \in Addrs : \E b \in Addrs \ {a} :
        /\ pc[a] = "send"
        /\ response[a] = FormatOk
        /\ contains_key(connections, a)
        /\ connections[a].socket = gen[a]
        /\ contains_key(connections, b)

\* ===================================================================
\* C17: nickname release: once a registered connection has disconnected and
\* its session loop has exited, the nickname check of a REG with the same
\* nickname from another, unregistered connection, with no competing
\* registration, finds the nickname free (the REG goes on to OK, not ERR TKN).
\* ===================================================================
RegPoints == {"reg_contains", "reg_any", "reg_insert", "send", "joined"}

\* address a's connection registered nickname n, disconnected, and its
\* session loop has exited
DisconnectedHolder(a, n) ==
    /\ pc[a] = "closed"
    /\ exit[a] \in {"eof", "read_err"}
    /\ \E i \in OkIndices(a) : NickOf(inp[a][i]) = n

\* nobody but a and b holds or is asking for nickname n
NoCompetitor(a, b, n) ==
    \A c \in Addrs \ {a, b} :
        /\ ~(contains_key(connections, c) /\ connections[c].nickname = n)
        /\ ~(pc[c] \in RegPoints /\ nickname[c] = n)

C17_NicknameRelease ==
    [][ \A b \in Addrs : \A a \in Addrs \ {b} :
          ( /\ pc[b] = "reg_any"
            /\ pc'[b] # pc[b]
            /\ DisconnectedHolder(a, nickname[b])
            /\ NoCompetitor(a, b, nickname[b]) )
          => pc'[b] = "reg_insert" ]_vars

\* ===================================================================
\* C18: a session prints "Joined" exactly once for each of its REG answered
\* OK, after the OK has been written and with the registered nickname, and
\* prints no "Joined" for a REG answered ERR ALR_REG or ERR TKN.
\* ===================================================================
JoinedLines(a) ==
    { k \in 1..Len(stdout) :
        stdout[k].kind = "Joined" /\ stdout[k].addr = a /\ stdout[k].gen = gen[a] }

C18_JoinedOncePerOk ==
    \A a \in Addrs :
        /\ Cardinality(JoinedLines(a)) =
              Cardinality(OkIndices(a)) - (IF pc[a] = "joined" THEN 1 ELSE 0)
        /\ \A k \in JoinedLines(a) :
              \E i \in OkIndices(a) : stdout[k].nickname = NickOf(inp[a][i])

\* a connection was answered OK, its "Joined" line is printed and it was
\* then refused a second REG without another "Joined" line
C18_Witness ==
    \E a \in Addrs :
        /\ Len(out[a]) = 2
        /\ out[a][1] = FormatOk
        /\ out[a][2] = FormatError("ALR_REG")
        /\ Cardinality(JoinedLines(a)) = 1
        /\ pc[a] = "loop"

\* ===================================================================
\* C19: a connection's commands are handled one at a time: at most one chunk
\* is unanswered, the loop is back at its read (and the socket guard of the
\* read is held) only when every chunk read so far has been answered, and
\* the i-th response is an answer to the i-th chunk.
\* ===================================================================
\* the responses the dispatcher can give to a chunk
AnswersTo(d) ==
    IF IsWhitespaceOnly(d) THEN {FormatError("NIL_CMD")}
    ELSE IF IsUnknownCommand(d) THEN {FormatError("UNK_CMD")}
    ELSE IF IsRegWithNick(d) THEN {FormatOk, FormatError("ALR_REG"), FormatError("TKN")}
    ELSE {}

C19_OneCommandInFlight ==
    \A a \in Addrs :
        /\ Len(inp[a]) - Len(out[a]) \in {0, 1}
        /\ pc[a] \in {"loop", "reading", "eof_get", "eof_match"} => Len(out[a]) = Len(inp[a])
        /\ socketLock[a] => pc[a] = "reading"
        /\ Len(inp[a]) > Len(out[a]) =>
              (pc[a] \in {"handle", "reg_contains", "reg_any", "reg_insert", "send", "closed"}
               /\ buffer[a] = inp[a][Len(inp[a])])
        /\ \A i \in 1..Len(out[a]) : out[a][i] \in AnswersTo(inp[a][i])

\* two chunks of one connection were answered, each with its own answer, and
\* the loop is at its next read
C19_Witness ==
    \E a \in Addrs :
        /\ Len(inp[a]) = 2
        /\ Len(out[a]) = 2
        /\ out[a][1] # out[a][2]
        /\ AnswersTo(inp[a][1]) \cap AnswersTo(inp[a][2]) = {}
        /\ pc[a] = "reading"

\* ===================================================================
\* C20: no task holds the registry lock while it waits for a read, for a
\* write or for a socket lock, and no task holds two locks at once; a task
\* waiting for a lock finds it free; and, under fair scheduling, a chunk that
\* has been read is answered (or its session ends) whatever the other
\* connections do, blocked in their reads or not.
\* ===================================================================
LocksHeld(a) ==
    (IF connectionsLock = a THEN {"connections"} ELSE {})
    \cup (IF socketLock[a] THEN {"socket"} ELSE {})

LockDiscipline ==
    \A a \in Addrs :
        /\ Cardinality(LocksHeld(a)) <= 1
        /\ pc[a] \in {"loop", "reading", "send", "none", "closed"} => connectionsLock # a
        /\ pc[a] \in {"reg_contains", "reg_any", "reg_insert", "eof_get"} => connectionsLock = 0
        /\ pc[a] \in {"loop", "send"} => ~socketLock[a]

InFlight(a) == pc[a] \in {"handle", "reg_contains", "reg_any", "reg_insert", "send"}

C20_LocksNeverBlock ==
    /\ []LockDiscipline
    /\ \A b \in Addrs : InFlight(b) ~> ~InFlight(b)

\* one connection is blocked in its read, holding its socket lock, while
\* another connection's REG has been answered
C20_Witness ==
    \E a \in Addrs : \E b \in Addrs \ {a} :
        /\ pc[a] = "reading"
        /\ socketLock[a]
        /\ Len(inp[a]) = 0
        /\ Len(out[b]) >= 1
        /\ IsRegWithNick(inp[b][Len(out[b])])
        /\ ~InFlight(b)

====
